---- MODULE Spec2Model ----
(***************************************************************************)
(* Analog_Buttons: a resistor-ladder keypad on one analog pin.             *)
(*                                                                         *)
(* determine_button() turns one ADC sample into a button number and        *)
(* read_key() runs the debounce/repeat state machine on top of it.         *)
(*                                                                         *)
(* Arithmetic.  determine_button() computes in float.  Every intermediate  *)
(* value is a multiple of 1/1023, and no value of button_approx is closer  *)
(* than 1/2046 to a rounding tie (10*s*(N-1) is even, 1023 is odd), while   *)
(* the float error is below 1e-4 for the button counts used here; the      *)
(* model therefore computes with exact numerators over 1023 and obtains    *)
(* the same integers as the float code.                                    *)
(*                                                                         *)
(* Time.  millis() is the variable clock.  read_key() calls millis() once  *)
(* for a comparison and once more for the assignment that follows it; the  *)
(* timer interrupt may advance the clock in between (the skew).            *)
(***************************************************************************)
EXTENDS Integers, Sequences, FiniteSets

VARIABLES
    number_buttons,         \* const int number_buttons
    repeat_milliseconds,    \* int repeat_milliseconds
    debounce_milliseconds,  \* int debounce_milliseconds
    last_key,               \* int last_key
    keypad_state,           \* enum keypad_state_t keypad_state
    debounce_timestamp,     \* unsigned long debounce_timestamp
    repeating_timestamp,    \* unsigned long repeating_timestamp
    clock,                  \* the value millis() returns
    sample,                 \* the value analogRead(pin) returned to the last call
    ret,                    \* the value the last call returned
    path,                   \* the branch the last call took
    window_stable,          \* history: all polls since the window opened read one value
    held,                   \* history: a key was accepted and every poll since read it
    settled,                \* history: some poll has accepted a key
    fresh,                  \* history: the last step was a call of read_key()
    pc,                     \* phase of a scripted run
    plan,                   \* the samples a scripted run feeds to analogRead()
    times,                  \* history of a scripted run: millis() at its first and last poll
    rets,                   \* history of a scripted run: what each poll returned
    events                  \* history of a scripted run: the keys accepted, in order

object == <<number_buttons, repeat_milliseconds, debounce_milliseconds,
            last_key, keypad_state, debounce_timestamp, repeating_timestamp>>
history == <<window_stable, held, settled>>
script == <<pc, plan, times, rets, events>>
vars == <<object, clock, sample, ret, path, history, fresh, script>>

----------------------------------------------------------------------------
(* Bounds of the model. *)

\* Largest number of buttons of the state-machine runs.
MaxButtons == 2
\* Largest number of buttons the resolver is evaluated for.
MaxLadder == 4
\* The ADC range is sampled at SampleLevels equal steps (plus 0).
SampleLevels == 3
\* The clock of the state-machine runs stops here.
MaxClock == 6
\* Largest advance of millis() between two calls inside one read_key().
MaxSkew == 1
\* The wrap-around runs construct the object this long before millis()
\* wraps.
WrapLead == 2
\* A scripted run polls at most this long after the earliest time it may.
MaxWait == 1
\* Largest number of polls of a scripted press and release.
MaxPolls == 6

----------------------------------------------------------------------------
(* Program constants. *)

SUPPLY_VOLTAGE == 5
ADC_MAX == 1023
DEFAULT_DEBOUNCE_TIME == 50
DEFAULT_REPEAT_TIME == 0

KEYPAD_STATE_IDLE == "IDLE"
KEYPAD_STATE_DEBOUNCING == "DEBOUNCING"

\* unsigned long arithmetic wraps.  The type has 32 bits on the target;
\* TLC's integers are 32-bit signed, so the model keeps 30 of them.
ULongModulus == 2^30
ULong(x) == x % ULongModulus

----------------------------------------------------------------------------
(* determine_button *)

\* roundf() of the ratio num/den (den > 0): nearest integer, halves away
\* from zero.
roundf(num, den) ==
    IF num >= 0 THEN (2 * num + den) \div (2 * den)
                ELSE -((2 * (-num) + den) \div (2 * den))

\* Faulty variant: the voltage falls as the sample rises.
voltage_inverted(voltage_i) == SUPPLY_VOLTAGE * (ADC_MAX - voltage_i)

\* float voltage = SUPPLY_VOLTAGE * (float)voltage_i / 1023.0, as a
\* numerator over ADC_MAX.
voltage(voltage_i) == SUPPLY_VOLTAGE * voltage_i

\* float button_approx = ( 1.0 - voltage ) * number_buttons + voltage, as a
\* numerator over ADC_MAX.
button_approx(n, voltage_i) ==
    (ADC_MAX - voltage(voltage_i)) * n + voltage(voltage_i)

\* if( button > number_buttons ) button = -1;
no_button(button, n) == button > n

determine_button(n, voltage_i) ==
    LET button == roundf(button_approx(n, voltage_i), ADC_MAX)
    IN  IF no_button(button, n) THEN -1 ELSE button

\* The reading of the last poll.
key_reported == determine_button(number_buttons, sample)

----------------------------------------------------------------------------
(* read_key *)

\* Faulty variant: the debounce time is not added to the time of the change.
debounce_expired_no_interval(now) ==
    now > debounce_timestamp

\* Faulty variant: the debounce period is over as soon as it has been reached.
debounce_expired_at_boundary(now) ==
    now >= ULong(debounce_timestamp + debounce_milliseconds)

\* if( millis( ) > debounce_timestamp + debounce( ) )
debounce_expired(now) ==
    now > ULong(debounce_timestamp + debounce_milliseconds)

\* if( last_key != key_reported )
key_changed(key) == last_key # key

\* Faulty variant: the key repeats as soon as the repeat period is reached.
repeat_due_at_boundary(now) ==
    /\ repeat_milliseconds > 0
    /\ now >= ULong(repeating_timestamp + repeat_milliseconds)

\* Faulty variant: the repeat time 0 does not disable the repeat.
repeat_due_unguarded(now) ==
    now > ULong(repeating_timestamp + repeat_milliseconds)

\* Faulty variant: the repeat time is not added to the time of the last report.
repeat_due_no_interval(now) ==
    /\ repeat_milliseconds > 0
    /\ now > repeating_timestamp

\* if( repeat_time > 0 ) if( millis( ) > repeating_timestamp + repeat_time )
repeat_due(now) ==
    /\ repeat_milliseconds > 0
    /\ now > ULong(repeating_timestamp + repeat_milliseconds)

\* Faulty variant: the reading of the call before is stored.
accepted_key_previous(key) == key_reported

\* Faulty variant: the accepted reading is not stored.
accepted_key_stale(key) == last_key

\* last_key = key_reported: the key an expired debounce period settles.
accepted_key(key) == key

\* Faulty variant: with the debounce time 0 a changed reading is accepted by
\* the poll that detects it.
branch_same_poll(key, now) ==
    IF keypad_state = KEYPAD_STATE_DEBOUNCING
    THEN IF debounce_expired(now) THEN "accept" ELSE "wait"
    ELSE IF key_changed(key)
         THEN IF debounce_milliseconds = 0 THEN "accept" ELSE "open"
         ELSE IF repeat_due(now) THEN "repeat" ELSE "steady"

\* Faulty variant: the else is missing, so a poll inside an open debounce
\* window goes on to the change and repeat tests.
branch_fallthrough(key, now) ==
    IF keypad_state = KEYPAD_STATE_DEBOUNCING /\ debounce_expired(now)
    THEN "accept"
    ELSE IF key_changed(key) THEN "open"
         ELSE IF repeat_due(now) THEN "repeat" ELSE "steady"

\* Faulty variant: a reading is accepted only if the call before read it too.
branch_stable_only(key, now) ==
    IF keypad_state = KEYPAD_STATE_DEBOUNCING
    THEN IF debounce_expired(now) /\ key = key_reported THEN "accept" ELSE "wait"
    ELSE IF key_changed(key) THEN "open"
         ELSE IF repeat_due(now) THEN "repeat" ELSE "steady"

\* The branch read_key() takes for reading key when millis() returns now.
branch(key, now) ==
    IF keypad_state = KEYPAD_STATE_DEBOUNCING
    THEN IF debounce_expired(now) THEN "accept" ELSE "wait"
    ELSE IF key_changed(key) THEN "open"
         ELSE IF repeat_due(now) THEN "repeat" ELSE "steady"

\* One call of read_key(): analogRead() returns voltage_i, the first
\* millis() of the branch taken returns now and a second one later.
read_key(voltage_i, now, later) ==
    LET key == determine_button(number_buttons, voltage_i)
        b == branch(key, now)
    IN  /\ path' = b
        /\ sample' = voltage_i
        /\ last_key' = IF b = "accept" THEN accepted_key(key) ELSE last_key
        /\ repeating_timestamp' =
               IF b \in {"accept", "repeat"} THEN later ELSE repeating_timestamp
        /\ keypad_state' =
               CASE b = "accept" -> KEYPAD_STATE_IDLE
                 [] b = "open" -> KEYPAD_STATE_DEBOUNCING
                 [] OTHER -> keypad_state
        /\ debounce_timestamp' = IF b = "open" THEN now ELSE debounce_timestamp
        /\ ret' = IF b \in {"accept", "repeat"} THEN key ELSE -1
        /\ clock' = IF b \in {"accept", "repeat"} THEN later ELSE now
        /\ window_stable' =
               IF b \in {"accept", "wait"}
               THEN window_stable /\ key = key_reported
               ELSE TRUE
        /\ held' = IF b = "accept" THEN TRUE ELSE held /\ key = last_key
        /\ settled' = (settled \/ b = "accept")
        /\ fresh' = TRUE
        /\ UNCHANGED <<number_buttons, repeat_milliseconds, debounce_milliseconds>>

\* Faulty variant: setting the repeat time restarts the repeat period.
repeat_resets_anchor(milliseconds) ==
    /\ repeat_milliseconds' = milliseconds
    /\ repeating_timestamp' = clock
    /\ UNCHANGED <<number_buttons, debounce_milliseconds, last_key, keypad_state,
                   debounce_timestamp>>

\* void repeat( int milliseconds )
repeat(milliseconds) ==
    /\ repeat_milliseconds' = milliseconds
    /\ UNCHANGED <<number_buttons, debounce_milliseconds, last_key, keypad_state,
                   debounce_timestamp, repeating_timestamp>>

\* void debounce( int milliseconds )
debounce(milliseconds) ==
    /\ debounce_milliseconds' = milliseconds
    /\ UNCHANGED <<number_buttons, repeat_milliseconds, last_key, keypad_state,
                   debounce_timestamp, repeating_timestamp>>

\* Analog_Buttons( pin_number, number_of_buttons ) at millis() = now.
Constructed(n, now) ==
    /\ number_buttons = n
    /\ repeat_milliseconds = DEFAULT_REPEAT_TIME
    /\ debounce_milliseconds = DEFAULT_DEBOUNCE_TIME
    /\ last_key = -1
    /\ keypad_state = KEYPAD_STATE_IDLE
    /\ debounce_timestamp = now
    /\ repeating_timestamp = now
    /\ clock = now
    /\ ret = -1
    /\ path = "construct"
    /\ window_stable = TRUE
    /\ held = FALSE
    /\ settled = FALSE
    /\ fresh = FALSE

----------------------------------------------------------------------------
(* The polling loop with arbitrary samples, clock values and setter calls. *)

\* The samples the runs draw from: SampleLevels equal steps of the range.
Samples == {(i * ADC_MAX) \div SampleLevels : i \in 0..SampleLevels}

\* The intervals the setters are called with.
DebounceTimes == {0, 1, DEFAULT_DEBOUNCE_TIME}
RepeatTimes == {0, 2}

\* No scripted run.
NoScript ==
    /\ pc = "free"
    /\ plan = <<>>
    /\ times = <<>>
    /\ rets = <<>>
    /\ events = <<>>

Init ==
    /\ \E n \in 1..MaxButtons : Constructed(n, 0)
    /\ sample = ADC_MAX
    /\ NoScript

Poll ==
    \E voltage_i \in Samples, skew \in 0..MaxSkew :
        /\ clock + skew <= MaxClock
        /\ read_key(voltage_i, clock, ULong(clock + skew))
        /\ UNCHANGED script

SetRepeat ==
    \E ms \in RepeatTimes :
        /\ repeat(ms)
        /\ UNCHANGED <<clock, sample, ret, path, history, script>>
        /\ fresh' = FALSE

SetDebounce ==
    \E ms \in DebounceTimes :
        /\ debounce(ms)
        /\ UNCHANGED <<clock, sample, ret, path, history, script>>
        /\ fresh' = FALSE

Tick ==
    /\ clock < MaxClock
    /\ clock' = ULong(clock + 1)
    /\ UNCHANGED <<object, sample, ret, path, history, script>>
    /\ fresh' = FALSE

Next == Poll \/ SetRepeat \/ SetDebounce \/ Tick

Spec == Init /\ [][Next]_vars

----------------------------------------------------------------------------
(* The resolver alone: determine_button() on every sample of the ADC range. *)

InitResolver ==
    /\ \E n \in 1..MaxLadder : Constructed(n, 0)
    /\ sample \in 0..ADC_MAX
    /\ NoScript

Resolve ==
    /\ path = "construct"
    /\ ret' = determine_button(number_buttons, sample)
    /\ path' = "resolve"
    /\ UNCHANGED <<object, clock, sample, history, script>>
    /\ fresh' = FALSE

SpecResolver == InitResolver /\ [][Resolve]_vars

\* The ladder formula with the voltage normalised to [0, 1]:
\* n = ( 1 - V )N + V with V = voltage_i / 1023, as a numerator over ADC_MAX.
ladder_formula(n, voltage_i) == (ADC_MAX - voltage_i) * n + voltage_i

\* C1: for every button count and every sample, determine_button() returns
\* the rounded value of the ladder formula on the normalised voltage (with
\* the "greater than N" sentinel applied to both).
C1_ResolverIsRoundedLadderFormula ==
    path = "resolve" =>
        LET button == roundf(ladder_formula(number_buttons, sample), ADC_MAX)
        IN  ret = IF no_button(button, number_buttons) THEN -1 ELSE button

\* C2: on the full-scale sample (no button pressed) determine_button()
\* returns -1, whatever the button count.
C2_FullScaleIsNoButton ==
    (path = "resolve" /\ sample = ADC_MAX) => ret = -1

\* C3: determine_button() returns -1 or a button number in
\* 0..number_buttons, never anything else.
C3_ResolverRange ==
    path = "resolve" => ret \in ({-1} \cup (0..number_buttons))

\* C12: for a fixed button count, determine_button() is non-increasing in
\* the sample: a higher sample never resolves to a higher button, results
\* of -1 set aside.
C12_ResolverNonIncreasing ==
    path = "resolve" =>
        \A s2 \in sample..ADC_MAX :
            LET r2 == determine_button(number_buttons, s2)
            IN  (ret # -1 /\ r2 # -1) => ret >= r2

\* A resolved sample with a higher sample that resolves to a strictly
\* lower button.
C12_Witness ==
    /\ path = "resolve"
    /\ ret # -1
    /\ \E s2 \in (sample + 1)..ADC_MAX :
           LET r2 == determine_button(number_buttons, s2)
           IN  r2 # -1 /\ r2 < ret

----------------------------------------------------------------------------
(* The state machine under arbitrary polls and setter calls. *)

\* A step that is a call of read_key().
IsPoll ==
    \E voltage_i \in Samples, skew \in 0..MaxSkew :
        read_key(voltage_i, clock, ULong(clock + skew))

\* A call of read_key() that accepts a reading (DEBOUNCING -> IDLE).
IsAcceptance ==
    /\ keypad_state = KEYPAD_STATE_DEBOUNCING
    /\ keypad_state' = KEYPAD_STATE_IDLE

\* C4: last_key is always -1 or a button index in 0..number_buttons-1.
C4_LastKeyRange ==
    last_key \in -1..(number_buttons - 1)

\* C5: with repeat disabled, two consecutive acceptances never carry the
\* same key: an accepted key is not accepted again until another value
\* has been accepted in between.
C5_OneEventPerPress ==
    [][(settled /\ repeat_milliseconds = 0 /\ IsAcceptance)
           => last_key' # last_key]_vars

\* C6: whenever a poll accepts a key, every poll since the debounce window
\* was opened, the opening one included, read that same key.
C6_AcceptedOnlyIfStable ==
    path = "accept" => window_stable

\* C10: with repeat disabled, once a key has been accepted every later
\* poll that still reads it reports no event, whatever the clock.
C10_NoRefireWhileHeld ==
    [][(held /\ repeat_milliseconds = 0 /\ IsPoll /\ key_reported' = last_key)
           => ret' = -1]_vars

----------------------------------------------------------------------------
(* Scripted runs: the polling loop fed with a planned sequence of samples. *)

\* The lowest and the highest sample that determine_button() maps to key.
SamplesOfKey(n, key) ==
    LET all == {s \in 0..ADC_MAX : determine_button(n, s) = key}
    IN  {s \in all : \A o \in all : s <= o} \cup {s \in all : \A o \in all : s >= o}

\* The button numbers of a ladder of n buttons.
ValidKeys(n) == 0..n

\* millis() at the first and at the previous poll of the run.
FirstPoll == times[1]
LastPoll == IF times = <<>> THEN clock ELSE times[2]

\* The loop calls read_key() when millis() returns now >= clock.
ScriptPoll(voltage_i, now, skew) ==
    /\ now >= clock
    /\ read_key(voltage_i, now, ULong(now + skew))
    /\ times' = IF times = <<>> THEN <<now, now>> ELSE <<FirstPoll, now>>
    /\ rets' = Append(rets, ret')
    /\ events' = IF path' = "accept" THEN Append(events, last_key') ELSE events
    /\ plan' = plan

\* A call of debounce() before the first poll of a run.
ScriptConfig ==
    /\ times = <<>>
    /\ debounce_milliseconds = DEFAULT_DEBOUNCE_TIME
    /\ \E ms \in DebounceTimes \ {DEFAULT_DEBOUNCE_TIME} : debounce(ms)
    /\ UNCHANGED <<clock, sample, ret, path, history, script>>
    /\ fresh' = FALSE

(* Bounce: the readings A, B, A, A, A, A; the first four polls lie within
   the debounce interval of the first, the last two are made more than the
   debounce interval after the first (or after the poll before). *)

InitBounce ==
    /\ \E n \in 1..MaxButtons : Constructed(n, 0)
    /\ sample = ADC_MAX
    /\ pc = "bounce"
    /\ \E a \in ValidKeys(number_buttons), b \in ValidKeys(number_buttons) :
           /\ a # b
           /\ \E sa \in SamplesOfKey(number_buttons, a),
                 sb \in SamplesOfKey(number_buttons, b) :
                  plan = <<sa, sb, sa, sa, sa, sa>>
    /\ times = <<>>
    /\ rets = <<>>
    /\ events = <<>>

BounceTimes ==
    LET i == Len(rets) + 1
    IN  IF i = 1 THEN {clock + w : w \in 0..MaxWait}
        ELSE IF i <= 4
        THEN {t \in {clock + w : w \in 0..MaxWait}
                     \cup {FirstPoll + debounce_milliseconds - w : w \in 0..MaxWait} :
                 t >= clock /\ t <= FirstPoll + debounce_milliseconds}
        ELSE {t \in {FirstPoll + debounce_milliseconds + 1 + w : w \in 0..MaxWait}
                     \cup {LastPoll + debounce_milliseconds + 1 + w : w \in 0..MaxWait} :
                 t >= clock}

BouncePoll ==
    /\ pc = "bounce"
    /\ Len(rets) < Len(plan)
    /\ \E now \in BounceTimes, skew \in 0..MaxSkew :
           ScriptPoll(plan[Len(rets) + 1], now, skew)
    /\ pc' = pc

BounceConfig == pc = "bounce" /\ ScriptConfig

SpecBounce == InitBounce /\ [][BounceConfig \/ BouncePoll]_vars

\* C7: on the readings A, B, A, A, A, A with the first four polls inside
\* the debounce interval of the first and the later ones spaced past it,
\* the polls inside the window report no event, B is never reported, and A
\* is accepted exactly once (by the fifth poll).
C7_FlickerSuppressed ==
    pc = "bounce" =>
        LET a == determine_button(number_buttons, plan[1])
        IN  /\ \A i \in 1..Len(rets) : rets[i] = IF i = 5 THEN a ELSE -1
            /\ events = IF Len(rets) >= 5 THEN <<a>> ELSE <<>>

C7_Witness ==
    /\ pc = "bounce"
    /\ Len(rets) = 6
    /\ debounce_milliseconds = DEFAULT_DEBOUNCE_TIME
    /\ LastPoll > FirstPoll + 2 * debounce_milliseconds
    /\ rets[5] = determine_button(number_buttons, plan[1])
    /\ events = <<rets[5]>>

(* Press and release: the readings are key 2 until it is settled, then
   "no button" until that is settled. *)

InitRelease ==
    /\ \E n \in 1..MaxButtons : Constructed(n, 0)
    /\ sample = ADC_MAX
    /\ pc = "press"
    /\ \E sp \in SamplesOfKey(number_buttons, 2),
          sr \in SamplesOfKey(number_buttons, -1) : plan = <<sp, sr>>
    /\ times = <<>>
    /\ rets = <<>>
    /\ events = <<>>

\* The times a scripted run polls at: now or shortly after, and around the
\* end of the debounce interval counted from the previous poll.
WaitTimes ==
    {t \in {clock + w : w \in 0..MaxWait}
            \cup {LastPoll + debounce_milliseconds + w : w \in 0..MaxWait} :
        t >= clock}

\* The key is (still) pressed: read_key() until it reports the key.
PressPoll ==
    /\ pc = "press"
    /\ Len(rets) < MaxPolls
    /\ \E now \in WaitTimes, skew \in 0..MaxSkew : ScriptPoll(plan[1], now, skew)
    /\ pc' = IF path' = "accept" THEN "release" ELSE "press"

\* The key is released: read_key() until the release is accepted.
ReleasePoll ==
    /\ pc = "release"
    /\ Len(rets) < MaxPolls
    /\ \E now \in WaitTimes, skew \in 0..MaxSkew : ScriptPoll(plan[2], now, skew)
    /\ pc' = IF path' = "accept" THEN "done" ELSE "release"

ReleaseConfig == pc = "press" /\ ScriptConfig

SpecRelease == InitRelease /\ [][ReleaseConfig \/ PressPoll \/ ReleasePoll]_vars

\* C8: key 2 read until settled and then "no button" read until settled
\* gives exactly two acceptances, 2 (last_key becomes 2) and then -1
\* (last_key becomes -1); key 2 is reported by one poll only.
C8_PressThenRelease ==
    /\ pc = "press" => (events = <<>> /\ last_key = -1)
    /\ pc = "release" => (events = <<2>> /\ last_key = 2)
    /\ pc = "done" => (events = <<2, -1>> /\ last_key = -1)
    /\ pc \in {"press", "release", "done"} =>
           Cardinality({i \in 1..Len(rets) : rets[i] # -1}) = IF pc = "press" THEN 0 ELSE 1

C8_Witness ==
    /\ pc = "done"
    /\ events = <<2, -1>>
    /\ keypad_state = KEYPAD_STATE_IDLE
    /\ debounce_milliseconds = DEFAULT_DEBOUNCE_TIME
    /\ Len(rets) > 4

(* Cadence: the example sketch.  setup() calls repeat( 250 ); loop() then
   polls a constant reading every 100 ms, from the first poll to the one
   1000 ms after it. *)

SKETCH_REPEAT_TIME == 250

InitCadence ==
    /\ \E n \in 1..MaxLadder, now \in 0..MaxWait : Constructed(n, now)
    /\ sample = ADC_MAX
    /\ pc = "setup"
    /\ \E s \in Samples :
           /\ determine_button(number_buttons, s) # -1
           /\ plan = <<s>>
    /\ times = <<>>
    /\ rets = <<>>
    /\ events = <<>>

CadenceSetup ==
    /\ pc = "setup"
    /\ repeat(SKETCH_REPEAT_TIME)
    /\ pc' = "loop"
    /\ UNCHANGED <<clock, sample, ret, path, history, plan, times, rets, events>>
    /\ fresh' = FALSE

\* The time of the next poll: any time for the first, then every 100 ms.
CadenceTimes ==
    IF times = <<>> THEN {clock + w : w \in 0..MaxWait}
                    ELSE {FirstPoll + 100 * Len(rets)}

CadencePoll ==
    /\ pc = "loop"
    /\ Len(rets) <= 1000 \div 100
    /\ \E now \in CadenceTimes, skew \in 0..MaxSkew : ScriptPoll(plan[1], now, skew)
    /\ pc' = pc

SpecCadence == InitCadence /\ [][CadenceSetup \/ CadencePoll]_vars

\* C9: with repeat 250 ms, the default debounce time and a constant reading
\* k (a key, not "no button") polled every 100 ms from the first poll to
\* the poll 1000 ms later, exactly 4 polls report k, one acceptance and
\* then 3 repeats, and every other poll reports -1.
C9_RepeatCadence ==
    (pc = "loop" /\ Len(rets) = 1000 \div 100 + 1) =>
        LET k == determine_button(number_buttons, plan[1])
        IN  /\ Cardinality({i \in 1..Len(rets) : rets[i] = k}) = 4
            /\ \A i \in 1..Len(rets) : rets[i] \in {k, -1}
            /\ events = <<k>>

C9_Witness ==
    /\ pc = "loop"
    /\ Len(rets) = 11
    /\ LastPoll = FirstPoll + 1000
    /\ debounce_milliseconds = DEFAULT_DEBOUNCE_TIME
    /\ repeat_milliseconds = 250
    /\ rets[11] = determine_button(number_buttons, plan[1])
    /\ rets[11] \in 1..number_buttons
    /\ repeating_timestamp > LastPoll

\* A poll long after the acceptance reads the held key and reports nothing.
C10_Witness ==
    /\ held
    /\ repeat_milliseconds = 0
    /\ path = "steady"
    /\ keypad_state = KEYPAD_STATE_IDLE
    /\ key_reported = last_key
    /\ last_key \in 1..number_buttons
    /\ ret = -1
    /\ clock > repeating_timestamp + 2

----------------------------------------------------------------------------
(* The setters. *)

\* The data members of the state machine.
KeypadState == <<last_key, keypad_state, debounce_timestamp, repeating_timestamp>>

\* C11: a call of repeat(ms) or debounce(ms) changes its own interval only
\* (last_key, keypad_state and both timestamps stay), and the next call of
\* read_key() compares the clock against the interval as it is then set.
C11_SettersChangeOnlyTheirInterval ==
    [][/\ repeat_milliseconds' # repeat_milliseconds
            => UNCHANGED <<debounce_milliseconds, KeypadState>>
       /\ debounce_milliseconds' # debounce_milliseconds
            => UNCHANGED <<repeat_milliseconds, KeypadState>>
       /\ (IsPoll /\ keypad_state = KEYPAD_STATE_DEBOUNCING)
            => (path' = "accept"
                  <=> clock > ULong(debounce_timestamp + debounce_milliseconds))
       /\ (IsPoll /\ keypad_state = KEYPAD_STATE_IDLE /\ key_reported' = last_key)
            => (path' = "repeat"
                  <=> (/\ repeat_milliseconds > 0
                       /\ clock > ULong(repeating_timestamp + repeat_milliseconds)))
      ]_vars

\* Both intervals have been set, and a poll has accepted a key one tick
\* after the window opened, which only the new debounce time 0 allows.
C11_Witness ==
    /\ fresh
    /\ path = "accept"
    /\ debounce_milliseconds = 0
    /\ repeat_milliseconds = 2
    /\ clock = debounce_timestamp + 1
    /\ last_key \in 1..number_buttons


----------------------------------------------------------------------------
(* Timing of read_key(). *)

\* C13: the timing comparisons are strict.  A poll in DEBOUNCING at exactly
\* debounce_timestamp + debounce time does not accept; a poll in IDLE with
\* an unchanged reading at exactly repeating_timestamp + repeat time does
\* not repeat; acceptance and repeat happen only strictly after the
\* boundary.
C13_StrictComparisons ==
    [][IsPoll =>
        /\ (/\ keypad_state = KEYPAD_STATE_DEBOUNCING
            /\ clock = ULong(debounce_timestamp + debounce_milliseconds))
             => (keypad_state' = KEYPAD_STATE_DEBOUNCING /\ ret' = -1)
        /\ (/\ keypad_state = KEYPAD_STATE_IDLE
            /\ key_reported' = last_key
            /\ clock = ULong(repeating_timestamp + repeat_milliseconds))
             => (/\ ret' = -1
                 /\ path' # "repeat"
                 /\ repeating_timestamp' = repeating_timestamp)
        /\ path' = "accept"
             => clock > ULong(debounce_timestamp + debounce_milliseconds)
        /\ path' = "repeat"
             => clock > ULong(repeating_timestamp + repeat_milliseconds)
      ]_vars

\* A poll exactly on the boundary of a non-empty debounce window waited.
C13_Witness ==
    /\ fresh
    /\ path = "wait"
    /\ keypad_state = KEYPAD_STATE_DEBOUNCING
    /\ debounce_milliseconds = 1
    /\ clock = debounce_timestamp + debounce_milliseconds


\* C14: whatever the debounce time, 0 included, the poll that detects a
\* changed reading in IDLE reports no event, keeps last_key and only opens
\* the debounce window; a reading is accepted only by a poll that starts
\* in DEBOUNCING, hence by a later poll.
C14_ChangeNotAcceptedBySamePoll ==
    [][IsPoll =>
        /\ (keypad_state = KEYPAD_STATE_IDLE /\ key_reported' # last_key)
             => (/\ ret' = -1
                 /\ last_key' = last_key
                 /\ keypad_state' = KEYPAD_STATE_DEBOUNCING
                 /\ debounce_timestamp' = clock)
        /\ last_key' # last_key => keypad_state = KEYPAD_STATE_DEBOUNCING
      ]_vars

\* With the debounce time 0 a poll has just detected a change and has only
\* opened the window.
C14_Witness ==
    /\ fresh
    /\ path = "open"
    /\ debounce_milliseconds = 0
    /\ key_reported # last_key
    /\ keypad_state = KEYPAD_STATE_DEBOUNCING
    /\ ret = -1


\* C15: while the machine is DEBOUNCING, a poll whose reading differs from
\* the reading of the previous poll restarts the debounce window at the
\* current time.
C15_ChangeRestartsWindow ==
    [][(/\ IsPoll
        /\ keypad_state = KEYPAD_STATE_DEBOUNCING
        /\ key_reported' # key_reported)
           => (/\ keypad_state' = KEYPAD_STATE_DEBOUNCING
               /\ debounce_timestamp' = clock)]_vars


\* C16: a poll in DEBOUNCING whose window is still open (millis() is at
\* most debounce_timestamp + debounce time) reports no event and leaves
\* last_key, keypad_state and both timestamps unchanged, whatever it reads.
C16_OpenWindowPollChangesNothing ==
    [][(/\ IsPoll
        /\ keypad_state = KEYPAD_STATE_DEBOUNCING
        /\ clock <= ULong(debounce_timestamp + debounce_milliseconds))
           => (ret' = -1 /\ UNCHANGED KeypadState)]_vars

\* A poll inside an open window, after the time of the change, has read
\* another value than the poll before it and returned -1.
C16_Witness ==
    /\ fresh
    /\ path = "wait"
    /\ ~window_stable
    /\ debounce_timestamp < clock
    /\ clock <= debounce_timestamp + debounce_milliseconds
    /\ keypad_state = KEYPAD_STATE_DEBOUNCING
    /\ ret = -1


----------------------------------------------------------------------------
(* Key events. *)

\* C17: a poll that starts in IDLE and reports a key (a repeat event) ends
\* in IDLE, with a repeat time above 0 and a reading equal to last_key, and
\* every poll since the last acceptance read last_key.  A poll in IDLE
\* that reads another value reports nothing, moves to DEBOUNCING and
\* leaves repeating_timestamp alone; out of DEBOUNCING the only event is
\* an acceptance, which resets repeating_timestamp.
C17_RepeatOnlyWhileHeldInIdle ==
    [][IsPoll =>
        /\ (keypad_state = KEYPAD_STATE_IDLE /\ ret' # -1)
             => (/\ keypad_state' = KEYPAD_STATE_IDLE
                 /\ repeat_milliseconds > 0
                 /\ key_reported' = last_key
                 /\ last_key' = last_key
                 /\ held /\ held'
                 /\ repeating_timestamp' = clock')
        /\ (keypad_state = KEYPAD_STATE_IDLE /\ key_reported' # last_key)
             => (/\ ret' = -1
                 /\ keypad_state' = KEYPAD_STATE_DEBOUNCING
                 /\ repeating_timestamp' = repeating_timestamp)
        /\ (keypad_state = KEYPAD_STATE_DEBOUNCING /\ ret' # -1)
             => (/\ path' = "accept"
                 /\ last_key' = ret'
                 /\ repeating_timestamp' = clock')
      ]_vars

\* A poll has just repeated the key that has been held since it was
\* accepted.
C17_Witness ==
    /\ fresh
    /\ path = "repeat"
    /\ held
    /\ ret \in 1..number_buttons
    /\ ret = last_key
    /\ repeat_milliseconds > 0
    /\ keypad_state = KEYPAD_STATE_IDLE
    /\ repeating_timestamp = clock


\* C18: whenever read_key() has returned a key other than -1, last_key is
\* that key and the machine is in IDLE, until the next call: every key
\* reported is the key currently settled.
C18_ReportedKeyIsSettledKey ==
    ret # -1 => (last_key = ret /\ keypad_state = KEYPAD_STATE_IDLE)

\* A poll has just accepted and returned a button although the readings
\* inside the window were not all the same.
C18_Witness ==
    /\ fresh
    /\ path = "accept"
    /\ ~window_stable
    /\ ret \in 1..number_buttons
    /\ last_key = ret
    /\ keypad_state = KEYPAD_STATE_IDLE


----------------------------------------------------------------------------
(* Progress of the debounce: loop() never stops calling read_key(). *)

SpecLive == Init /\ [][Next]_vars /\ WF_vars(Poll)

\* C19: the machine never stays in DEBOUNCING forever.  While polling
\* continues, from every DEBOUNCING state in which the clock has passed
\* debounce_timestamp + debounce time the machine gets back to IDLE,
\* whatever is read in between, unless a setter call takes the premise
\* away by lengthening the debounce time.
C19_DebouncingEnds ==
    (/\ keypad_state = KEYPAD_STATE_DEBOUNCING
     /\ clock > ULong(debounce_timestamp + debounce_milliseconds))
        ~> (\/ keypad_state = KEYPAD_STATE_IDLE
            \/ ~(clock > ULong(debounce_timestamp + debounce_milliseconds)))

\* A poll after the end of a non-empty window has just accepted a reading
\* that differs from what was read inside the window.
C19_Witness ==
    /\ fresh
    /\ path = "accept"
    /\ ~window_stable
    /\ debounce_milliseconds = 1
    /\ clock > debounce_timestamp + debounce_milliseconds
    /\ keypad_state = KEYPAD_STATE_IDLE


----------------------------------------------------------------------------
(* The polling loop around the wrap of millis(). *)

\* The time since the object was constructed.
uptime == ULong(clock + WrapLead)

\* The clock time from since to now, whether or not millis() wrapped in
\* between.
elapsed(since, now) == ULong(now + (ULongModulus - since))

InitWrap ==
    /\ \E n \in 1..MaxButtons : Constructed(n, ULongModulus - WrapLead)
    /\ sample = ADC_MAX
    /\ NoScript

WrapPoll ==
    \E voltage_i \in Samples, skew \in 0..MaxSkew :
        /\ uptime + skew <= MaxClock
        /\ read_key(voltage_i, clock, ULong(clock + skew))
        /\ UNCHANGED script

WrapTick ==
    /\ uptime < MaxClock
    /\ clock' = ULong(clock + 1)
    /\ UNCHANGED <<object, sample, ret, path, history, script>>
    /\ fresh' = FALSE

NextWrap == WrapPoll \/ SetRepeat \/ SetDebounce \/ WrapTick

SpecWrap == InitWrap /\ [][NextWrap]_vars

\* C20: with wrapping unsigned timestamps, a poll accepts only when more
\* than the debounce time has elapsed on the clock since the window was
\* opened, and repeats only when more than the repeat time has elapsed
\* since repeating_timestamp, also when the clock or the sum wraps.
C20_NoEarlyEventAcrossWrap ==
    [][fresh' =>
        /\ path' = "accept"
             => elapsed(debounce_timestamp, clock) > debounce_milliseconds
        /\ path' = "repeat"
             => elapsed(repeating_timestamp, clock) > repeat_milliseconds
      ]_vars

====
